---- MODULE Spec2Model ----
(***************************************************************************)
(* Market-clearing engine of the market supervisor agent                   *)
(* (src/agents/market_supervisor/market_supervisor_agent.py) on top of the *)
(* agent runtime (src/agents/base_agent.py).                               *)
(*                                                                         *)
(* Representation.                                                         *)
(*  - MarketOrder objects live in `objs`; an object is named by its index  *)
(*    (its identity).  order_book maps order ids to objects, bids and      *)
(*    offers are lists of objects, exactly as the Python containers hold   *)
(*    references to shared mutable objects.                                *)
(*  - Quantities are fixed-point numbers counted in half megawatts         *)
(*    (quantity 2 is 1.0 MW), so that a positive quantity below the        *)
(*    minimum trade size of 1.0 MW exists.  Prices are whole currency      *)
(*    units.  Values the code derives by division or by the 0.9/0.1        *)
(*    moving average are exact rationals <<numerator, denominator>>.       *)
(*  - `now` is the wall clock (datetime.now) in whole time units; a        *)
(*    handler runs at one instant, because no coroutine it awaits ever     *)
(*    suspends (send_message and store_timeseries_data contain no await).  *)
(*  - trades_executed is the local list of the latest _clear_market call   *)
(*    and `sent` the messages the latest step appended to                  *)
(*    message_history; both are emptied by every other step.  `step`       *)
(*    names the handler or loop iteration that ran last, and the order id  *)
(*    its message carried.                                                 *)
(*  - A quantity_mw that is not a number (the handlers store whatever the  *)
(*    payload carries) is the value NotANumber; every place where the code *)
(*    does arithmetic on it raises TypeError there.                        *)
(*  - store_available says whether the time-series store accepts writes    *)
(*    (store_timeseries_data raises when it does not).                     *)
(*  - `tasks` holds the position of the four asyncio tasks that touch the  *)
(*    market state: "none" before start(), "ready" while the task is       *)
(*    suspended before the test of `while self.is_running` (just created,  *)
(*    or in asyncio.sleep), "waiting" while the message processor is       *)
(*    suspended inside wait_for(queue.get()), "exited" after the loop was  *)
(*    left.  start() is called once in a behaviour.                        *)
(***************************************************************************)
EXTENDS Integers, Sequences, FiniteSets, TLC

VARIABLES is_running, now, objs, order_book, bids, offers,
          market_clearing_price, market_volatility,
          total_volume_traded, total_trades_executed,
          is_trading_active, supply_demand_ratio, price_spread,
          average_trade_size, price_discovery_method, profile, store_available,
          tasks, step, trades_executed, sent

vars == <<is_running, now, objs, order_book, bids, offers,
          market_clearing_price, market_volatility,
          total_volume_traded, total_trades_executed,
          is_trading_active, supply_demand_ratio, price_spread,
          average_trade_size, price_discovery_method, profile, store_available,
          tasks, step, trades_executed, sent>>

----------------------------------------------------------------------------
(* Bounds of the model *)

\* number of MarketOrder objects created in a behaviour
MaxOrders == 3

\* last instant of the wall clock
MaxTime == 2

----------------------------------------------------------------------------
(* Program constants *)

\* min_trade_size_mw = 1.0, in half megawatts
MinTradeSize == 2

\* max_trade_size_mw = 1000.0, in half megawatts
MaxTradeSize == 2000

\* the lifetime MarketOrder.__init__ gives an order without valid_until, 30
\* minutes, in the unit of the clock
DefaultLifetime == 30

\* market_clearing_price seed, 50.0
SeedPrice == 50

\* default priority of an order, offer_data.get('priority', 5)
DefaultPriority == 5

\* market_fee_percentage = 0.001
MarketFee == <<1, 1000>>

\* emergency_stop_threshold = 0.8
EmergencyStopThreshold == <<4, 5>>

\* the volatility level of the high_volatility signal, 0.5
VolatilityLimit == <<1, 2>>

\* half megawatts per megawatt (the fixed-point scale of quantities)
QtyScale == 2

PricingMethods == {"uniform_pricing", "pay_as_bid"}

\* the agents every emergency signal is sent to
AgentsToNotify ==
  <<"forecasting_agent", "producer_agent", "consumer_agent", "grid_optimization_agent">>

----------------------------------------------------------------------------
(* Exact arithmetic standing for the code's float arithmetic *)

Abs(x) == IF x < 0 THEN -x ELSE x

RECURSIVE Gcd(_, _)
Gcd(a, b) == IF b = 0 THEN a ELSE Gcd(b, a % b)

\* the rational n/d in lowest terms with a positive denominator (d # 0)
Rat(n, d) ==
  LET g == Gcd(Abs(n), Abs(d))
      s == IF d < 0 THEN -1 ELSE 1
  IN  <<(s * n) \div g, (s * d) \div g>>

RInt(n) == <<n, 1>>
RAdd(x, y) == Rat(x[1] * y[2] + y[1] * x[2], x[2] * y[2])
RSub(x, y) == Rat(x[1] * y[2] - y[1] * x[2], x[2] * y[2])
RMul(x, y) == Rat(x[1] * y[1], x[2] * y[2])
RDiv(x, y) == Rat(x[1] * y[2], x[2] * y[1])
RAbs(x) == <<Abs(x[1]), x[2]>>
RLess(x, y) == x[1] * y[2] < y[1] * x[2]
RLeq(x, y) == x[1] * y[2] <= y[1] * x[2]
RMin(x, y) == IF RLeq(x, y) THEN x ELSE y

Min(a, b) == IF a <= b THEN a ELSE b

----------------------------------------------------------------------------
(* MarketOrder *)

\* the argument valid_until=None of MarketOrder.__init__, and the lifetime of a
\* payload that has no key 'valid_until'
NoExpiry == -1

\* line 44: valid_until or (timestamp + timedelta(minutes=30))
ValidUntilOrDefault(timestamp, valid_until) ==
  IF valid_until = NoExpiry THEN timestamp + DefaultLifetime ELSE valid_until

\* MarketOrder.__init__: a new order is active with nothing filled
MarketOrder(order_id, order_type, agent_id, quantity_mw, price_per_mwh, timestamp, priority, valid_until) ==
  [order_id |-> order_id, order_type |-> order_type, agent_id |-> agent_id,
   quantity_mw |-> quantity_mw, price_per_mwh |-> price_per_mwh,
   timestamp |-> timestamp, priority |-> priority,
   valid_until |-> ValidUntilOrDefault(timestamp, valid_until),
   filled_quantity |-> 0, status |-> "active"]

\* a quantity_mw that is no number (None, a string): the handlers copy the
\* payload's value into the order unchecked (lines 733 and 765)
NotANumber == -1000
IsNumber(x) == x # NotANumber

\* MarketOrder.is_valid at instant t
IsValid(o, t) == t <= o.valid_until /\ o.status = "active"

\* MarketOrder.fill
Fill(o, quantity) ==
  LET f == o.filled_quantity + quantity
  IN  [o EXCEPT !.filled_quantity = f,
                !.status = IF f >= o.quantity_mw THEN "filled"
                           ELSE IF f > 0 THEN "partially_filled"
                           ELSE o.status]

----------------------------------------------------------------------------
(* Lists of order objects *)

\* list.remove(x): drops the first occurrence of x
RECURSIVE ListRemove(_, _)
ListRemove(s, x) ==
  IF s = <<>> THEN <<>>
  ELSE IF Head(s) = x THEN Tail(s)
  ELSE <<Head(s)>> \o ListRemove(Tail(s), x)

\* x in list
InList(s, x) == \E i \in 1..Len(s) : s[i] = x

\* the place of an object that no container refers to any more
NoOrder ==
  [order_id |-> 0, order_type |-> "none", agent_id |-> "none", quantity_mw |-> 0,
   price_per_mwh |-> 0, timestamp |-> 0, priority |-> 0, valid_until |-> 0,
   filled_quantity |-> 0, status |-> "none"]

\* The objects still alive: an object that neither order_book nor bids nor
\* offers refers to is unreachable and is freed.
Collect(os, book, bs, ofs) ==
  [h \in 1..Len(os) |->
     IF \/ \E i \in 1..Len(book) : book[i].obj = h
        \/ InList(bs, h)
        \/ InList(ofs, h)
     THEN os[h] ELSE NoOrder]

\* [order for order in s if order.is_valid()], the objects read from os at instant t
RECURSIVE ValidOnly(_, _, _)
ValidOnly(s, os, t) ==
  IF s = <<>> THEN <<>>
  ELSE IF IsValid(os[Head(s)], t) THEN <<Head(s)>> \o ValidOnly(Tail(s), os, t)
  ELSE ValidOnly(Tail(s), os, t)

\* SortKey without the priority: orders are ranked by price and time alone
SortKey_IgnoresPriority(o, side) ==
  IF side = "bid" THEN <<0, -o.price_per_mwh, o.timestamp>>
  ELSE <<0, o.price_per_mwh, o.timestamp>>

\* the sort keys: (-priority, -price_per_mwh, timestamp) for bids,
\* (-priority, price_per_mwh, timestamp) for offers
SortKey(o, side) ==
  IF side = "bid" THEN <<-o.priority, -o.price_per_mwh, o.timestamp>>
  ELSE <<-o.priority, o.price_per_mwh, o.timestamp>>

\* Python's tuple comparison k1 < k2
KeyLess(k1, k2) ==
  \/ k1[1] < k2[1]
  \/ k1[1] = k2[1] /\ k1[2] < k2[2]
  \/ k1[1] = k2[1] /\ k1[2] = k2[2] /\ k1[3] < k2[3]

\* one insertion of a stable sort: x goes before the first element with a larger key
RECURSIVE SortInsert(_, _, _, _)
SortInsert(s, x, os, side) ==
  IF s = <<>> THEN <<x>>
  ELSE IF KeyLess(SortKey(os[x], side), SortKey(os[Head(s)], side)) THEN <<x>> \o s
  ELSE <<Head(s)>> \o SortInsert(Tail(s), x, os, side)

\* sorted(s, key=...) and list.sort(key=...): stable, ascending by key
RECURSIVE SortedBy(_, _, _)
SortedBy(s, os, side) ==
  IF s = <<>> THEN <<>>
  ELSE SortInsert(SortedBy(SubSeq(s, 1, Len(s) - 1), os, side), s[Len(s)], os, side)

----------------------------------------------------------------------------
(* Messages and trades *)

\* BaseAgent.send_message: the message appended to message_history
Message(recipient_id, message_type, payload) ==
  [recipient_id |-> recipient_id, message_type |-> message_type, payload |-> payload]

\* TradePrice without the pricing method: every trade is paid as bid
TradePrice_AlwaysBid(bid, offer, method) == RInt(bid.price_per_mwh)

\* the trade price of _execute_trade: the midpoint of the two limit prices under
\* uniform_pricing, the bid's limit price otherwise (pay_as_bid)
TradePrice(bid, offer, method) ==
  IF method = "uniform_pricing"
  THEN Rat(bid.price_per_mwh + offer.price_per_mwh, 2)
  ELSE RInt(bid.price_per_mwh)

\* the trade record of _execute_trade for objects b (bid) and o (offer) of os;
\* bid_ref and offer_ref name the two objects the call was given
TradeRecord(os, b, o, quantity, method, t) ==
  LET trade_price == TradePrice(os[b], os[o], method)
      total_value == RMul(Rat(quantity, QtyScale), trade_price)
  IN  [bid_id |-> os[b].order_id, offer_id |-> os[o].order_id,
       buyer_id |-> os[b].agent_id, seller_id |-> os[o].agent_id,
       quantity_mw |-> quantity, price_per_mwh |-> trade_price,
       total_value |-> total_value,
       market_fee |-> RMul(total_value, MarketFee),
       timestamp |-> t, bid_ref |-> b, offer_ref |-> o]

\* NotifyTradeExecution without the market-wide announcement
NotifyTradeExecution_NoBroadcast(trade) ==
  << Message(trade.buyer_id, "trade_executed", trade),
     Message(trade.seller_id, "trade_executed", trade) >>

\* _notify_trade_execution: buyer, seller, then the broadcast announcement
NotifyTradeExecution(trade) ==
  << Message(trade.buyer_id, "trade_executed", trade),
     Message(trade.seller_id, "trade_executed", trade),
     Message("broadcast", "trade_announcement", trade) >>

----------------------------------------------------------------------------
(* _clear_market *)

\* The state a clearing round works on: the objects, the two live lists, the
\* local trades_executed, the two counters, the messages sent so far and
\* whether an exception has ended the round (the handler of line 277).
RoundState(os, bs, ofs, volume, count) ==
  [objs |-> os, bids |-> bs, offers |-> ofs, trades |-> <<>>,
   volume |-> volume, count |-> count, sent |-> <<>>, failed |-> FALSE]

\* StoreTradeDataRaises without the handler of lines 706-707: the failure of
\* the store reaches _execute_trade
StoreTradeDataRaises_Unhandled(available) == ~available

\* _store_trade_data: whether the call raises.  store_timeseries_data raises
\* when the store is not available; the handler of lines 706-707 logs that and
\* returns
StoreTradeDataRaises(available) == FALSE

\* _execute_trade up to the exception of a raising _store_trade_data: the
\* counters are incremented and the notifications sent, the handler of lines
\* 319-321 re-raises, and _clear_market's handler ends the round before the
\* fills
ExecuteTradeRaised(st, b, o, quantity, method, t) ==
  LET trade == TradeRecord(st.objs, b, o, quantity, method, t)
  IN  [st EXCEPT !.volume = @ + quantity, !.count = @ + 1,
                 !.sent = @ \o NotifyTradeExecution(trade),
                 !.failed = TRUE]

\* ExecutePairing without offer.fill: the offer keeps its filled_quantity
ExecutePairing_NoOfferFill(st, b, o, quantity, method, t) ==
  LET trade == TradeRecord(st.objs, b, o, quantity, method, t)
      os2 == [st.objs EXCEPT ![b] = Fill(@, quantity)]
  IN  [st EXCEPT
         !.objs = os2,
         !.bids = IF os2[b].status = "filled" THEN ListRemove(st.bids, b) ELSE st.bids,
         !.trades = Append(st.trades, trade),
         !.volume = st.volume + quantity,
         !.count = st.count + 1,
         !.sent = st.sent \o NotifyTradeExecution(trade)]

\* ExecutePairing with a second increment of total_trades_executed
ExecutePairing_CountsTwice(st, b, o, quantity, method, t) ==
  LET trade == TradeRecord(st.objs, b, o, quantity, method, t)
      os2 == [st.objs EXCEPT ![b] = Fill(@, quantity)]
      os3 == [os2 EXCEPT ![o] = Fill(@, quantity)]
  IN  [st EXCEPT
         !.objs = os3,
         !.bids = IF os3[b].status = "filled" THEN ListRemove(st.bids, b) ELSE st.bids,
         !.offers = IF os3[o].status = "filled" THEN ListRemove(st.offers, o) ELSE st.offers,
         !.trades = Append(st.trades, trade),
         !.volume = st.volume + quantity,
         !.count = st.count + 2,
         !.sent = st.sent \o NotifyTradeExecution(trade)]

\* lines 249-261: _execute_trade (record, counters, notifications), then both
\* fills, then the removal of a filled bid and of a filled offer from the lists
ExecutePairing(st, b, o, quantity, method, t) ==
  LET trade == TradeRecord(st.objs, b, o, quantity, method, t)
      os2 == [st.objs EXCEPT ![b] = Fill(@, quantity)]
      os3 == [os2 EXCEPT ![o] = Fill(@, quantity)]
  IN  [st EXCEPT
         !.objs = os3,
         !.bids = IF os3[b].status = "filled" THEN ListRemove(st.bids, b) ELSE st.bids,
         !.offers = IF os3[o].status = "filled" THEN ListRemove(st.offers, o) ELSE st.offers,
         !.trades = Append(st.trades, trade),
         !.volume = st.volume + quantity,
         !.count = st.count + 1,
         !.sent = st.sent \o NotifyTradeExecution(trade)]

\* Compatible without the price test: every valid bid matches every valid offer
Compatible_Always(bid, offer) == TRUE

\* Compatible with a strict comparison: equal limit prices do not match
Compatible_Strict(bid, offer) == bid.price_per_mwh > offer.price_per_mwh

\* line 241: the bid's limit price is at least the offer's
Compatible(bid, offer) == bid.price_per_mwh >= offer.price_per_mwh

\* TradeQuantityOk without the minimum: any positive quantity is traded
TradeQuantityOk_AnyPositive(trade_quantity) == trade_quantity > 0

\* line 248: the quantity reaches min_trade_size_mw
TradeQuantityOk(trade_quantity) == trade_quantity >= MinTradeSize

\* TradeQuantity as a fixed lot: every pairing trades min_trade_size_mw
TradeQuantity_MinimumLot(bid, offer) == MinTradeSize

\* lines 243-246: the smaller of the two remaining quantities
TradeQuantity(bid, offer) ==
  Min(bid.quantity_mw - bid.filled_quantity, offer.quantity_mw - offer.filled_quantity)

\* lines 236-265: the inner loop of bid b over sorted_offers from position j on.
\* The subtraction of lines 243-246 raises TypeError on a quantity that is no
\* number, and a raising _execute_trade ends the round as well.
RECURSIVE OfferLoop(_, _, _, _, _, _)
OfferLoop(st, b, sorted_offers, j, method, t) ==
  IF j > Len(sorted_offers) \/ st.failed THEN st
  ELSE
    LET o == sorted_offers[j]
        bid == st.objs[b]
        offer == st.objs[o]
        trade_quantity == TradeQuantity(bid, offer)
    IN  IF ~IsValid(offer, t) THEN OfferLoop(st, b, sorted_offers, j + 1, method, t)
        ELSE IF ~Compatible(bid, offer) THEN OfferLoop(st, b, sorted_offers, j + 1, method, t)
        ELSE IF ~IsNumber(bid.quantity_mw) \/ ~IsNumber(offer.quantity_mw)
        THEN [st EXCEPT !.failed = TRUE]
        ELSE IF ~TradeQuantityOk(trade_quantity)
        THEN OfferLoop(st, b, sorted_offers, j + 1, method, t)
        ELSE IF StoreTradeDataRaises(store_available)
        THEN ExecuteTradeRaised(st, b, o, trade_quantity, method, t)
        ELSE LET st2 == ExecutePairing(st, b, o, trade_quantity, method, t)
             IN  IF st2.objs[b].status = "filled" THEN st2
                 ELSE OfferLoop(st2, b, sorted_offers, j + 1, method, t)

\* lines 232-265: the outer loop over sorted_bids from position i on
RECURSIVE BidLoop(_, _, _, _, _, _)
BidLoop(st, sorted_bids, sorted_offers, i, method, t) ==
  IF i > Len(sorted_bids) \/ st.failed THEN st
  ELSE IF ~IsValid(st.objs[sorted_bids[i]], t)
       THEN BidLoop(st, sorted_bids, sorted_offers, i + 1, method, t)
       ELSE BidLoop(OfferLoop(st, sorted_bids[i], sorted_offers, 1, method, t),
                    sorted_bids, sorted_offers, i + 1, method, t)

\* the outer loop run over the live list self.bids instead of a sorted copy:
\* the list iterator goes on at the next position after a filled bid was
\* removed, so the bid that moved into the freed position is passed over
RECURSIVE BidLoopLive(_, _, _, _, _)
BidLoopLive(st, sorted_offers, i, method, t) ==
  IF i > Len(st.bids) \/ st.failed THEN st
  ELSE IF ~IsValid(st.objs[st.bids[i]], t)
       THEN BidLoopLive(st, sorted_offers, i + 1, method, t)
       ELSE BidLoopLive(OfferLoop(st, st.bids[i], sorted_offers, 1, method, t),
                        sorted_offers, i + 1, method, t)

\* MatchOrders without the snapshot of the bids
MatchOrders_IteratesLiveBids(st, method, t) ==
  IF st.bids = <<>> \/ st.offers = <<>> THEN st
  ELSE BidLoopLive([st EXCEPT !.bids = SortedBy(st.bids, st.objs, "bid")],
                   SortedBy(st.offers, st.objs, "offer"), 1, method, t)

\* lines 221-265: nothing when a side is empty, else the loops over the two
\* sorted snapshots
MatchOrders(st, method, t) ==
  IF st.bids = <<>> \/ st.offers = <<>> THEN st
  ELSE BidLoop(st, SortedBy(st.bids, st.objs, "bid"),
               SortedBy(st.offers, st.objs, "offer"), 1, method, t)

\* sum of quantity_mw over a list of trades
RECURSIVE TradesVolume(_)
TradesVolume(trades) ==
  IF trades = <<>> THEN 0 ELSE trades[1].quantity_mw + TradesVolume(Tail(trades))

\* sum of quantity_mw * price_per_mwh over a list of trades
RECURSIVE TradesWeightedPrice(_)
TradesWeightedPrice(trades) ==
  IF trades = <<>> THEN RInt(0)
  ELSE RAdd(RMul(RInt(trades[1].quantity_mw), trades[1].price_per_mwh),
            TradesWeightedPrice(Tail(trades)))

\* sum of price_per_mwh over a list of trades
RECURSIVE TradesPriceSum(_)
TradesPriceSum(trades) ==
  IF trades = <<>> THEN RInt(0)
  ELSE RAdd(trades[1].price_per_mwh, TradesPriceSum(Tail(trades)))

\* NewClearingPrice without the weights: the plain mean of the trade prices
NewClearingPrice_Unweighted(trades) ==
  RDiv(TradesPriceSum(trades), RInt(Len(trades)))

\* _update_market_clearing_price: the volume-weighted average price of the
\* round's trades
NewClearingPrice(trades) ==
  RDiv(TradesWeightedPrice(trades), RInt(TradesVolume(trades)))

\* ClearingPriceAfter with a reset: a round without trades puts the seed back
ClearingPriceAfter_ResetsOnEmpty(trades, old_price) ==
  IF trades # <<>> THEN NewClearingPrice(trades) ELSE RInt(SeedPrice)

\* lines 267-269 and 326-327: market_clearing_price after a round; a round
\* without trades does not call the update
ClearingPriceAfter(trades, old_price) ==
  IF trades # <<>> THEN NewClearingPrice(trades) ELSE old_price

\* _update_market_clearing_price: the volatility after a round with trades; it
\* is only updated while the old clearing price is positive
NewVolatility(trades, old_price, old_volatility) ==
  IF RLess(RInt(0), old_price)
  THEN LET price_change ==
             RDiv(RAbs(RSub(NewClearingPrice(trades), old_price)), old_price)
       IN  RAdd(RMul(old_volatility, <<9, 10>>), RMul(price_change, <<1, 10>>))
  ELSE old_volatility

\* lines 267-269 and 326-327: market_volatility after a round
VolatilityAfter(trades, old_price, old_volatility) ==
  IF trades # <<>> THEN NewVolatility(trades, old_price, old_volatility) ELSE old_volatility

----------------------------------------------------------------------------
(* order_book: a dict, kept as the list of its (key, object) items in *)
(* insertion order                                                     *)

BookHas(book, id) == \E i \in 1..Len(book) : book[i].key = id

\* order_book[id], for a key of the dict
BookGet(book, id) == book[CHOOSE i \in 1..Len(book) : book[i].key = id].obj

\* order_book[id] = h: an existing key keeps its position
BookSet(book, id, h) ==
  IF BookHas(book, id)
  THEN [i \in 1..Len(book) |-> IF book[i].key = id THEN [key |-> id, obj |-> h] ELSE book[i]]
  ELSE Append(book, [key |-> id, obj |-> h])

\* order_book.pop(id, None)
RECURSIVE BookPop(_, _)
BookPop(book, id) ==
  IF book = <<>> THEN <<>>
  ELSE IF Head(book).key = id THEN Tail(book)
  ELSE <<Head(book)>> \o BookPop(Tail(book), id)

----------------------------------------------------------------------------
(* The inputs of the model *)

\* What the other agents send in one behaviour.  Order ids and agent ids are
\* strings in the code and numbers or fixed names here.
\*   "book"   few order ids, so that an id is reused and an expiry message of
\*            one type names an order of the other; orders differ in lifetime
\*   "match"  every order has an id of its own and a long lifetime; orders differ
\*            in quantity, price and priority
\*   "rounds" as "match", one order more, orders differ in quantity only
\*   "faulty" as "match", with payloads the handlers ought to refuse (a
\*            quantity that is no number, a negative price) and a time-series
\*            store that may be out of reach
\*   "limits" two orders: one larger than the maximum trade size, one without
\*            an expiry
\*   "lifecycle" two orders as in "rounds", expiry messages, and a stop()
Profiles == {"book", "match", "rounds", "faulty", "limits", "lifecycle"}

\* the payloads an energy_bid or energy_offer message may carry: quantity (half
\* megawatts), limit price, priority and lifetime (valid_until - timestamp)
Payload(quantity_mw, price_per_mwh, priority, ttl) ==
  [quantity_mw |-> quantity_mw, price_per_mwh |-> price_per_mwh,
   priority |-> priority, ttl |-> ttl]

\* a lifetime no behaviour of the model outlives
LongTtl == MaxTime + 1

Payloads(prof) ==
  IF prof = "book"
  THEN { Payload(2, 50, DefaultPriority, 0),
         Payload(2, 50, DefaultPriority, 1) }
  ELSE IF prof = "match"
  THEN { Payload(2, 50, DefaultPriority, LongTtl),
         Payload(4, 50, DefaultPriority, LongTtl),
         Payload(6, 50, DefaultPriority, LongTtl),
         Payload(1, 50, DefaultPriority, LongTtl),
         Payload(-2, 50, DefaultPriority, LongTtl),
         Payload(2, 40, DefaultPriority, LongTtl),
         Payload(2, 400, DefaultPriority, LongTtl),
         Payload(2, 50, 9, LongTtl) }
  ELSE IF prof = "limits"
  THEN { Payload(MaxTradeSize + 2, 50, DefaultPriority, LongTtl),
         Payload(2, 50, DefaultPriority, NoExpiry) }
  ELSE IF prof = "faulty"
  THEN { Payload(4, 50, DefaultPriority, LongTtl),
         Payload(2, 40, DefaultPriority, LongTtl),
         Payload(NotANumber, 50, DefaultPriority, LongTtl),
         Payload(2, -10, DefaultPriority, LongTtl) }
  ELSE { Payload(2, 50, DefaultPriority, LongTtl),
         Payload(4, 50, DefaultPriority, LongTtl) }

\* the order ids the n-th submitted order may carry
OrderIds(prof, n) == IF prof = "book" THEN {1, 2} ELSE {n}

\* the order ids an offer_expired or bid_expired message may carry
ExpiredIds(prof) ==
  IF prof = "book" THEN {1, 2} ELSE IF prof = "lifecycle" THEN {1} ELSE {}

\* the number of orders submitted in a behaviour
OrdersOf(prof) ==
  IF prof = "rounds" THEN MaxOrders + 1
  ELSE IF prof \in {"book", "limits", "lifecycle"} THEN MaxOrders - 1
  ELSE MaxOrders

\* the last instant of the clock: lifetimes matter in "book", the order of the
\* timestamps in "rounds"; in "match" and "faulty" all orders are stamped at the
\* same instant
LastInstant(prof) ==
  IF prof = "book" THEN MaxTime
  ELSE IF prof \in {"rounds", "lifecycle"} THEN MaxTime - 1
  ELSE MaxTime - 2

\* whether stop() is called in the behaviour
MayStop(prof) == prof \in {"rounds", "lifecycle"}

\* the pricing methods configured
MethodsOf(prof) == IF prof = "match" THEN PricingMethods ELSE {"uniform_pricing"}

\* whether the time-series store accepts writes during the behaviour
StoreStates(prof) == IF prof = "faulty" THEN BOOLEAN ELSE {TRUE}

----------------------------------------------------------------------------
(* The asyncio tasks *)

\* the tasks start() creates that read or write the market state: the message
\* processor of BaseAgent and three of the loops of _start_agent_specific
Loops == {"market_clearing", "market_health", "order_book_maintenance"}
Tasks == {"message_processor"} \cup Loops

\* LoopAfterIteration without the handler of the loop: an exception that
\* reaches the loop ends the task
LoopAfterIteration_DiesOnError(raised) == IF raised THEN "exited" ELSE "ready"

\* the position of a loop after an iteration: the body's exception, if any, is
\* logged by the loop's handler, the task sleeps and comes back to the test of
\* is_running
LoopAfterIteration(raised) == "ready"

\* ProcessorAfterTest with the loop going on whatever is_running says
ProcessorAfterTest_IgnoresStop(running) == "waiting"

\* _message_processor at `while self.is_running`: into wait_for, or out
ProcessorAfterTest(running) == IF running THEN "waiting" ELSE "exited"

\* LoopMayIterate without the test of is_running
LoopMayIterate_IgnoresStop(pc, running) == pc = "ready"

\* a loop starts an iteration when it comes to the test of `while
\* self.is_running` and finds it true
LoopMayIterate(pc, running) == pc = "ready" /\ running

\* the tasks run in the order of their creation: the message processor (created
\* first, base_agent.py line 126) has made its first test before any loop runs
ProcessorHasRun == tasks["message_processor"] # "ready"

----------------------------------------------------------------------------
(* The state after construction *)

\* the record of the step that ran last: the handler or loop, the order id of
\* its message, whether it logged the removal of that order, whether an
\* exception ended the clearing round, the order objects the sweep popped
\* from order_book, as the sweep left them, and whether the payload of a
\* submission lacked the key 'valid_until'
StepRecord(op, id, removed) ==
  [op |-> op, id |-> id, removed |-> removed, failed |-> FALSE, swept |-> <<>>,
   no_valid_until |-> FALSE]
Step(op, id) == StepRecord(op, id, FALSE)

Init ==
  /\ is_running = FALSE
  /\ now = 0
  /\ objs = <<>>
  /\ order_book = <<>>
  /\ bids = <<>>
  /\ offers = <<>>
  /\ market_clearing_price = RInt(SeedPrice)
  /\ market_volatility = RInt(0)
  /\ total_volume_traded = 0
  /\ total_trades_executed = 0
  /\ is_trading_active = TRUE
  /\ supply_demand_ratio = RInt(1)
  /\ price_spread = 0
  /\ average_trade_size = RInt(0)
  /\ profile \in Profiles
  /\ store_available \in StoreStates(profile)
  /\ tasks = [t \in Tasks |-> "none"]
  /\ price_discovery_method \in MethodsOf(profile)
  /\ step = Step("__init__", 0)
  /\ trades_executed = <<>>
  /\ sent = <<>>

\* the configuration, fixed at construction, and the kind of input
config == <<price_discovery_method, profile, store_available>>

metrics == <<market_clearing_price, market_volatility, total_volume_traded,
             total_trades_executed, supply_demand_ratio, price_spread,
             average_trade_size>>

----------------------------------------------------------------------------
(* BaseAgent.start, BaseAgent.stop and the clock *)

\* start(): sets is_running and creates the tasks
Start ==
  /\ ~is_running
  /\ \A t \in Tasks : tasks[t] = "none"
  /\ is_running' = TRUE
  /\ tasks' = [t \in Tasks |-> "ready"]
  /\ trades_executed' = <<>> /\ sent' = <<>>
  /\ step' = Step("start", 0)
  /\ UNCHANGED <<now, objs, order_book, bids, offers, metrics, is_trading_active,
                 config>>

\* stop(): clears is_running; it cancels no task
Stop ==
  /\ is_running
  /\ MayStop(profile)
  /\ is_running' = FALSE
  /\ trades_executed' = <<>> /\ sent' = <<>>
  /\ step' = Step("stop", 0)
  /\ UNCHANGED <<now, objs, order_book, bids, offers, metrics, is_trading_active,
                 config, tasks>>

\* _message_processor comes to `while self.is_running` without a message in
\* hand: at its first run, or when wait_for timed out after stop() (a timeout
\* while is_running holds leads back into wait_for and changes nothing)
ProcessorTest ==
  /\ tasks["message_processor"] \in {"ready", "waiting"}
  /\ tasks["message_processor"] = "waiting" => ~is_running
  /\ tasks' = [tasks EXCEPT !["message_processor"] = ProcessorAfterTest(is_running)]
  /\ trades_executed' = <<>> /\ sent' = <<>>
  /\ step' = Step("processor_test", 0)
  /\ UNCHANGED <<is_running, now, objs, order_book, bids, offers, metrics,
                 is_trading_active, config>>

\* a loop comes back from asyncio.sleep, finds is_running false and ends
LoopExit ==
  \E t \in Loops :
    /\ tasks[t] = "ready"
    /\ ProcessorHasRun
    /\ ~is_running
    /\ tasks' = [tasks EXCEPT ![t] = "exited"]
    /\ trades_executed' = <<>> /\ sent' = <<>>
    /\ step' = Step("loop_exit", 0)
    /\ UNCHANGED <<is_running, now, objs, order_book, bids, offers, metrics,
                   is_trading_active, config>>

Tick ==
  /\ now < LastInstant(profile)
  /\ now' = now + 1
  /\ trades_executed' = <<>> /\ sent' = <<>>
  /\ step' = Step("clock", 0)
  /\ UNCHANGED <<is_running, objs, order_book, bids, offers, metrics,
                 is_trading_active, config, tasks>>

----------------------------------------------------------------------------
(* Message handlers *)

\* the lists after a new object h of the given side was appended and the list
\* of its side sorted again
SideAfterSubmit(side_list, h, os, side) == SortedBy(Append(side_list, h), os, side)

\* _handle_energy_bid for a message stamped at the present instant.  A payload
\* without the key 'valid_until' raises KeyError in the construction of the
\* order; the handler logs it and the book is as before.
HandleEnergyBid(id, p) ==
  LET order == MarketOrder(id, "bid", "consumer_agent", p.quantity_mw, p.price_per_mwh,
                           now, p.priority, now + p.ttl)
      h == Len(objs) + 1
  IN  /\ tasks["message_processor"] = "waiting"
      /\ Len(objs) < OrdersOf(profile)
      /\ IF p.ttl = NoExpiry
         THEN UNCHANGED <<order_book, bids, objs>>
         ELSE /\ order_book' = BookSet(order_book, id, h)
              /\ bids' = SideAfterSubmit(bids, h, Append(objs, order), "bid")
              /\ objs' = Collect(Append(objs, order), order_book', bids', offers)
      /\ tasks' = [tasks EXCEPT !["message_processor"] = ProcessorAfterTest(is_running)]
      /\ trades_executed' = <<>> /\ sent' = <<>>
      /\ step' = [Step("energy_bid", id) EXCEPT !.no_valid_until = (p.ttl = NoExpiry)]
      /\ UNCHANGED <<is_running, now, offers, metrics, is_trading_active,
                     config>>

\* _handle_energy_offer for a message stamped at the present instant.  A payload
\* without the key 'valid_until' raises KeyError in the construction of the
\* order; the handler logs it and the book is as before.
HandleEnergyOffer(id, p) ==
  LET order == MarketOrder(id, "offer", "producer_agent", p.quantity_mw, p.price_per_mwh,
                           now, p.priority, now + p.ttl)
      h == Len(objs) + 1
  IN  /\ tasks["message_processor"] = "waiting"
      /\ Len(objs) < OrdersOf(profile)
      /\ IF p.ttl = NoExpiry
         THEN UNCHANGED <<order_book, offers, objs>>
         ELSE /\ order_book' = BookSet(order_book, id, h)
              /\ offers' = SideAfterSubmit(offers, h, Append(objs, order), "offer")
              /\ objs' = Collect(Append(objs, order), order_book', bids, offers')
      /\ tasks' = [tasks EXCEPT !["message_processor"] = ProcessorAfterTest(is_running)]
      /\ trades_executed' = <<>> /\ sent' = <<>>
      /\ step' = [Step("energy_offer", id) EXCEPT !.no_valid_until = (p.ttl = NoExpiry)]
      /\ UNCHANGED <<is_running, now, bids, metrics, is_trading_active,
                     config>>

\* ExpiredResult without the test `id in order_book`: an unknown id drops the
\* first order of the list
ExpiredResult_UnknownDropsFirst(book, side_list, id) ==
  IF BookHas(book, id)
  THEN LET h == BookGet(book, id)
       IN  [book |-> BookPop(book, id),
            side |-> IF InList(side_list, h) THEN ListRemove(side_list, h) ELSE side_list,
            removed |-> TRUE]
  ELSE [book |-> book,
        side |-> IF side_list = <<>> THEN <<>> ELSE Tail(side_list),
        removed |-> FALSE]

\* _handle_offer_expired and _handle_bid_expired, on order_book and the list of
\* the handler's side: an id that is a key of order_book is popped, and the
\* popped object is removed from the list if it is in it; any other id changes
\* nothing
ExpiredResult(book, side_list, id) ==
  IF BookHas(book, id)
  THEN LET h == BookGet(book, id)
       IN  [book |-> BookPop(book, id),
            side |-> IF InList(side_list, h) THEN ListRemove(side_list, h) ELSE side_list,
            removed |-> TRUE]
  ELSE [book |-> book, side |-> side_list, removed |-> FALSE]

\* _handle_offer_expired
HandleOfferExpired(id) ==
  LET r == ExpiredResult(order_book, offers, id)
  IN  /\ tasks["message_processor"] = "waiting"
      /\ tasks' = [tasks EXCEPT !["message_processor"] = ProcessorAfterTest(is_running)]
      /\ order_book' = r.book
      /\ offers' = r.side
      /\ objs' = Collect(objs, order_book', bids, offers')
      /\ trades_executed' = <<>> /\ sent' = <<>>
      /\ step' = StepRecord("offer_expired", id, r.removed)
      /\ UNCHANGED <<is_running, now, bids, metrics, is_trading_active, config>>

\* _handle_bid_expired
HandleBidExpired(id) ==
  LET r == ExpiredResult(order_book, bids, id)
  IN  /\ tasks["message_processor"] = "waiting"
      /\ tasks' = [tasks EXCEPT !["message_processor"] = ProcessorAfterTest(is_running)]
      /\ order_book' = r.book
      /\ bids' = r.side
      /\ objs' = Collect(objs, order_book', bids', offers)
      /\ trades_executed' = <<>> /\ sent' = <<>>
      /\ step' = StepRecord("bid_expired", id, r.removed)
      /\ UNCHANGED <<is_running, now, offers, metrics, is_trading_active, config>>

----------------------------------------------------------------------------
(* _market_clearing_loop *)

\* _clear_market on the present state: the round state after the loops
ClearMarket ==
  MatchOrders(RoundState(objs, bids, offers, total_volume_traded, total_trades_executed),
              price_discovery_method, now)

\* ClearingIteration without the test of is_trading_active
ClearingIteration_IgnoresHalt(active) == ClearMarket

\* lines 150-152: the round of one loop iteration; while trading is halted
\* _clear_market is not called and the iteration leaves everything as it is
ClearingIteration(active) ==
  IF active THEN ClearMarket
  ELSE RoundState(objs, bids, offers, total_volume_traded, total_trades_executed)

\* One iteration of _market_clearing_loop.  While trading is active it runs
\* _clear_market; the call of _update_market_metrics that follows raises
\* AttributeError (the class defines no such method), which the loop's handler
\* logs, so _store_market_data is not reached: every iteration of an active
\* market ends in the loop's handler.  A round that an exception
\* ended does not reach _update_market_clearing_price (lines 267-269).
MarketClearingTick ==
  LET st == ClearingIteration(is_trading_active)
  IN  /\ LoopMayIterate(tasks["market_clearing"], is_running)
      /\ ProcessorHasRun
      /\ tasks' = [tasks EXCEPT !["market_clearing"] = LoopAfterIteration(is_trading_active)]
      /\ objs' = Collect(st.objs, order_book, st.bids, st.offers)
      /\ bids' = st.bids
      /\ offers' = st.offers
      /\ total_volume_traded' = st.volume
      /\ total_trades_executed' = st.count
      /\ trades_executed' = st.trades
      /\ sent' = st.sent
      /\ market_clearing_price' =
           IF st.failed THEN market_clearing_price
           ELSE ClearingPriceAfter(st.trades, market_clearing_price)
      /\ market_volatility' =
           IF st.failed THEN market_volatility
           ELSE VolatilityAfter(st.trades, market_clearing_price, market_volatility)
      /\ step' = [Step("clearing", 0) EXCEPT !.failed = st.failed]
      /\ UNCHANGED <<is_running, now, order_book, is_trading_active, supply_demand_ratio,
                     price_spread, average_trade_size, config>>

----------------------------------------------------------------------------
(* _market_health_monitoring_loop *)

\* sum(order.quantity_mw for order in s if order.is_valid())
RECURSIVE ValidQuantity(_, _, _)
ValidQuantity(s, os, t) ==
  IF s = <<>> THEN 0
  ELSE (IF IsValid(os[Head(s)], t) THEN os[Head(s)].quantity_mw ELSE 0)
       + ValidQuantity(Tail(s), os, t)

\* the prices of the valid orders of a list
ValidPrices(s, os, t) ==
  { os[s[i]].price_per_mwh : i \in { k \in 1..Len(s) : IsValid(os[s[k]], t) } }

SetMax(S) == CHOOSE x \in S : \A y \in S : y <= x
SetMin(S) == CHOOSE x \in S : \A y \in S : x <= y

\* the sums of lines 381-382 raise TypeError when a valid order of either list
\* has a quantity that is no number
QuantitySumRaises(bs, ofs, os, t) ==
  \E i \in 1..Len(bs \o ofs) :
     /\ IsValid(os[(bs \o ofs)[i]], t)
     /\ ~IsNumber(os[(bs \o ofs)[i]].quantity_mw)

\* whether max() or min() of lines 391-392 raises ValueError: both lists are
\* non-empty and one of them holds no valid order
SpreadRaises(bs, ofs, os, t) ==
  /\ bs # <<>> /\ ofs # <<>>
  /\ ValidPrices(bs, os, t) = {} \/ ValidPrices(ofs, os, t) = {}

\* lines 417-421: average_trade_size, in MW
AverageTradeSize(volume, count) ==
  IF count > 0 THEN Rat(volume, QtyScale * count) ELSE RInt(0)

\* _calculate_market_health, the supply-demand ratio
SupplyDemandRatio(bs, ofs, os, t) ==
  LET total_supply == ValidQuantity(ofs, os, t)
      total_demand == ValidQuantity(bs, os, t)
  IN  IF total_demand > 0 THEN Rat(total_supply, total_demand) ELSE RInt(1)

\* _calculate_market_health, the price spread: max() or min() of an empty
\* sequence raises ValueError when both lists are non-empty and one holds no
\* valid order; the handler logs it and price_spread keeps its old value
PriceSpread(bs, ofs, os, t, old_spread) ==
  IF bs # <<>> /\ ofs # <<>>
  THEN IF ValidPrices(bs, os, t) = {} \/ ValidPrices(ofs, os, t) = {}
       THEN old_spread
       ELSE SetMin(ValidPrices(ofs, os, t)) - SetMax(ValidPrices(bs, os, t))
  ELSE 0

\* _broadcast_emergency_signal: one emergency_signal per agent of AgentsToNotify
BroadcastEmergencySignal(signal_type, ratio, volatility, spread) ==
  [i \in 1..Len(AgentsToNotify) |->
     Message(AgentsToNotify[i], "emergency_signal",
             [signal_type |-> signal_type, supply_demand_ratio |-> ratio,
              market_volatility |-> volatility, price_spread |-> spread])]

\* TradingActiveAfterCheck as a level-triggered flag: active whenever the ratio
\* is at or above the threshold
TradingActiveAfterCheck_Resumes(active, ratio, volatility) ==
  ~RLess(ratio, EmergencyStopThreshold)

\* TradingActiveAfterCheck without the imbalance stop
TradingActiveAfterCheck_NeverStops(active, ratio, volatility) == active

\* TradingActiveAfterCheck with a stop on high volatility as well
TradingActiveAfterCheck_StopsOnVolatility(active, ratio, volatility) ==
  IF RLess(ratio, EmergencyStopThreshold) \/ RLess(VolatilityLimit, volatility)
  THEN FALSE ELSE active

\* _check_emergency_conditions, is_trading_active after the check: trading stops
\* when the ratio is below the threshold; nothing in the check resumes it
TradingActiveAfterCheck(active, ratio, volatility) ==
  IF RLess(ratio, EmergencyStopThreshold) THEN FALSE ELSE active

\* EmergencySignals with the imbalance signal on every check that finds the
\* ratio below the threshold, halted already or not
EmergencySignals_EveryCheck(active, ratio, volatility, spread) ==
  (IF RLess(ratio, EmergencyStopThreshold)
   THEN BroadcastEmergencySignal("supply_demand_imbalance", ratio, volatility, spread)
   ELSE <<>>)
  \o
  (IF RLess(VolatilityLimit, volatility)
   THEN BroadcastEmergencySignal("high_volatility", ratio, volatility, spread)
   ELSE <<>>)

\* _check_emergency_conditions, the signals it broadcasts
EmergencySignals(active, ratio, volatility, spread) ==
  (IF RLess(ratio, EmergencyStopThreshold) /\ active
   THEN BroadcastEmergencySignal("supply_demand_imbalance", ratio, volatility, spread)
   ELSE <<>>)
  \o
  (IF RLess(VolatilityLimit, volatility)
   THEN BroadcastEmergencySignal("high_volatility", ratio, volatility, spread)
   ELSE <<>>)

\* One iteration of _market_health_monitoring_loop: _calculate_market_health,
\* then _check_emergency_conditions on the ratio it left.  An exception in
\* _calculate_market_health is logged by its handler (lines 423-424) and the
\* assignments after the raising line do not happen.
MarketHealthTick ==
  /\ LoopMayIterate(tasks["market_health"], is_running)
  /\ ProcessorHasRun
  /\ tasks' = [tasks EXCEPT !["market_health"] = LoopAfterIteration(FALSE)]
  /\ supply_demand_ratio' =
       IF QuantitySumRaises(bids, offers, objs, now) THEN supply_demand_ratio
       ELSE SupplyDemandRatio(bids, offers, objs, now)
  /\ price_spread' =
       IF QuantitySumRaises(bids, offers, objs, now) THEN price_spread
       ELSE PriceSpread(bids, offers, objs, now, price_spread)
  /\ average_trade_size' =
       IF QuantitySumRaises(bids, offers, objs, now) \/ SpreadRaises(bids, offers, objs, now)
       THEN average_trade_size
       ELSE AverageTradeSize(total_volume_traded, total_trades_executed)
  /\ is_trading_active' =
       TradingActiveAfterCheck(is_trading_active, supply_demand_ratio', market_volatility)
  /\ sent' = EmergencySignals(is_trading_active, supply_demand_ratio',
                              market_volatility, price_spread')
  /\ trades_executed' = <<>>
  /\ step' = Step("health", 0)
  /\ UNCHANGED <<is_running, now, objs, order_book, bids, offers, market_clearing_price,
                 market_volatility, total_volume_traded, total_trades_executed,
                 config>>

----------------------------------------------------------------------------
(* _order_book_maintenance_loop *)

\* _cleanup_expired_orders, first loop: the items of order_book whose order is
\* not valid, in dict order
RECURSIVE ExpiredItems(_, _, _)
ExpiredItems(book, os, t) ==
  IF book = <<>> THEN <<>>
  ELSE IF ~IsValid(os[Head(book).obj], t)
       THEN <<Head(book)>> \o ExpiredItems(Tail(book), os, t)
       ELSE ExpiredItems(Tail(book), os, t)

\* the bid_expired or offer_expired message for an order
ExpiryMessage(o) ==
  IF o.order_type = "bid"
  THEN Message(o.agent_id, "bid_expired", [bid_id |-> o.order_id, reason |-> "expired"])
  ELSE Message(o.agent_id, "offer_expired", [offer_id |-> o.order_id, reason |-> "expired"])

\* list with every object of items removed (if present)
RECURSIVE RemoveItems(_, _)
RemoveItems(s, items) ==
  IF items = <<>> THEN s
  ELSE RemoveItems(IF InList(s, Head(items).obj) THEN ListRemove(s, Head(items).obj) ELSE s,
                   Tail(items))

\* order_book with every key of items popped
RECURSIVE PopItems(_, _)
PopItems(book, items) ==
  IF items = <<>> THEN book ELSE PopItems(BookPop(book, Head(items).key), Tail(items))

\* _rebalance_order_heaps for one side: the valid orders, sorted
Rebalance(s, os, side, t) == SortedBy(ValidOnly(s, os, t), os, side)

\* One iteration of _order_book_maintenance_loop: _cleanup_expired_orders, then
\* _rebalance_order_heaps
OrderBookMaintenanceTick ==
  LET expired == ExpiredItems(order_book, objs, now)
  IN  /\ LoopMayIterate(tasks["order_book_maintenance"], is_running)
      /\ ProcessorHasRun
      /\ tasks' = [tasks EXCEPT !["order_book_maintenance"] = LoopAfterIteration(FALSE)]
      /\ sent' = [i \in 1..Len(expired) |-> ExpiryMessage(objs[expired[i].obj])]
      /\ order_book' = PopItems(order_book, expired)
      /\ bids' = Rebalance(RemoveItems(bids, expired), objs, "bid", now)
      /\ offers' = Rebalance(RemoveItems(offers, expired), objs, "offer", now)
      /\ objs' = Collect(objs, order_book', bids', offers')
      /\ trades_executed' = <<>>
      /\ step' = [Step("maintenance", 0) EXCEPT
                    !.swept = [i \in 1..Len(expired) |-> objs[expired[i].obj]]]
      /\ UNCHANGED <<is_running, now, metrics, is_trading_active,
                     config>>

----------------------------------------------------------------------------
(* The specification *)

SubmitBid ==
  \E id \in OrderIds(profile, Len(objs) + 1), p \in Payloads(profile) : HandleEnergyBid(id, p)
SubmitOffer ==
  \E id \in OrderIds(profile, Len(objs) + 1), p \in Payloads(profile) : HandleEnergyOffer(id, p)
OfferExpired == \E id \in ExpiredIds(profile) : HandleOfferExpired(id)
BidExpired == \E id \in ExpiredIds(profile) : HandleBidExpired(id)

Next ==
  \/ Start
  \/ Stop
  \/ ProcessorTest
  \/ LoopExit
  \/ Tick
  \/ SubmitBid
  \/ SubmitOffer
  \/ OfferExpired
  \/ BidExpired
  \/ MarketClearingTick
  \/ MarketHealthTick
  \/ OrderBookMaintenanceTick

Spec == Init /\ [][Next]_vars

----------------------------------------------------------------------------
(* Vocabulary of the properties *)

\* the objects that exist
Objects == { h \in 1..Len(objs) : objs[h] # NoOrder }

\* the objects a container refers to
OnBook(h) == \/ \E i \in 1..Len(order_book) : order_book[i].obj = h
             \/ InList(bids, h)
             \/ InList(offers, h)

\* the quantity the trades of a list moved on object h
RECURSIVE FilledByTrades(_, _)
FilledByTrades(trades, h) ==
  IF trades = <<>> THEN 0
  ELSE (IF trades[1].bid_ref = h \/ trades[1].offer_ref = h THEN trades[1].quantity_mw ELSE 0)
       + FilledByTrades(Tail(trades), h)

\* the positions of the trades of the latest round that filled bid h
FillsOf(h) == { i \in 1..Len(trades_executed) : trades_executed[i].bid_ref = h }

\* the round that would run on the present book
WouldTrade == ClearMarket.trades # <<>>

Removals == {"offer_expired", "bid_expired"}

----------------------------------------------------------------------------
(* C1 *)

\* C1: no over-fill: every order object satisfies
\* 0 <= filled_quantity <= quantity_mw.
\* Refuted: the handlers accept an order with a negative quantity (see C8), whose
\* filled_quantity 0 exceeds its quantity from the moment it is accepted.
C1_NoOverFill ==
  \A h \in Objects :
    0 <= objs[h].filled_quantity /\ objs[h].filled_quantity <= objs[h].quantity_mw

----------------------------------------------------------------------------
(* C2 *)

\* C2: conservation: a clearing round raises the filled_quantity of every object
\* by exactly the quantities of the round's trades that name it, each trade
\* names one bid (under its bid_id) and one offer (under its offer_id), and an
\* object no trade names keeps its filled_quantity.  (An object the round
\* filled that order_book does not hold is unreachable afterwards: the trades
\* that name it moved exactly what was left of it.)
C2_Conservation ==
  [][ step'.op = "clearing" =>
        /\ Len(objs') = Len(objs)
        /\ \A h \in Objects :
             IF objs'[h] # NoOrder
             THEN objs'[h].filled_quantity - objs[h].filled_quantity
                    = FilledByTrades(trades_executed', h)
             ELSE objs[h].quantity_mw - objs[h].filled_quantity
                    = FilledByTrades(trades_executed', h)
        /\ \A i \in 1..Len(trades_executed') :
             LET t == trades_executed'[i]
             IN  /\ t.quantity_mw > 0
                 /\ objs[t.bid_ref].order_type = "bid"
                 /\ objs[t.bid_ref].order_id = t.bid_id
                 /\ objs[t.offer_ref].order_type = "offer"
                 /\ objs[t.offer_ref].order_id = t.offer_id ]_vars

\* a round of two trades that left an order partially filled
C2_Witness ==
  /\ step.op = "clearing"
  /\ Len(trades_executed) >= 2
  /\ \E h \in Objects : objs[h].status = "partially_filled"

----------------------------------------------------------------------------
(* C3 *)

\* bid a could be filled when the latest round started: it was on the bid list,
\* neither filled nor expired, with at least the minimum trade size left
C3_Fillable(a) ==
  \/ FillsOf(a) # {}
  \/ /\ InList(bids, a)
     /\ objs[a].status \in {"active", "partially_filled"}
     /\ now <= objs[a].valid_until
     /\ objs[a].quantity_mw - objs[a].filled_quantity >= MinTradeSize

\* C3: price-time priority: after every clearing round, if a bid b was filled in
\* the round, every bid a of the same priority tier that was fillable and was
\* submitted before b at an equal or better price was filled in the round
\* before b.
\* Refuted: a bid left partially filled by an earlier round is skipped by
\* is_valid (see C17), and a later bid at the same price is filled instead.
C3_PriceTimePriority ==
  step.op = "clearing" =>
    \A a \in Objects, b \in Objects :
      ( /\ a # b
        /\ objs[a].order_type = "bid" /\ objs[b].order_type = "bid"
        /\ objs[a].priority = objs[b].priority
        /\ objs[a].timestamp < objs[b].timestamp
        /\ objs[a].price_per_mwh >= objs[b].price_per_mwh
        /\ FillsOf(b) # {}
        /\ C3_Fillable(a) )
      => \E i \in FillsOf(a) : \A j \in FillsOf(b) : i < j

----------------------------------------------------------------------------
(* C4 *)

\* the orders past their expiry that a container still refers to
ExpiredOnBook == { h \in Objects : OnBook(h) /\ now > objs[h].valid_until }

\* C4: while trading is halted a clearing iteration produces no trade and
\* changes no order, a submitted bid or offer that carries its expiry is still
\* put on the book, and the
\* maintenance iteration still clears the book of expired orders.
C4_HaltBlocksMatching ==
  [][ ~is_trading_active =>
        /\ step'.op = "clearing" =>
             /\ trades_executed' = <<>>
             /\ UNCHANGED <<objs, bids, offers, order_book,
                            total_trades_executed, total_volume_traded>>
        /\ (step'.op = "energy_bid" /\ ~step'.no_valid_until) =>
             /\ Len(objs') = Len(objs) + 1
             /\ InList(bids', Len(objs'))
             /\ BookHas(order_book', step'.id)
             /\ BookGet(order_book', step'.id) = Len(objs')
        /\ (step'.op = "energy_offer" /\ ~step'.no_valid_until) =>
             /\ Len(objs') = Len(objs) + 1
             /\ InList(offers', Len(objs'))
             /\ BookHas(order_book', step'.id)
             /\ BookGet(order_book', step'.id) = Len(objs')
        /\ step'.op = "maintenance" => ExpiredOnBook' = {} ]_vars

\* a clearing iteration ran while trading was halted although the book holds a
\* pair that a round would trade
C4_Witness ==
  /\ step.op = "clearing"
  /\ ~is_trading_active
  /\ WouldTrade

----------------------------------------------------------------------------
(* C5 *)

----------------------------------------------------------------------------
(* C6 *)

\* C6: imbalance halt: after a monitoring iteration that computed a
\* supply-demand ratio below the emergency threshold the market is halted, and a
\* clearing iteration of a halted market produces no trade.
C6_ImbalanceHalt ==
  /\ (step.op = "health" /\ RLess(supply_demand_ratio, EmergencyStopThreshold))
       => ~is_trading_active
  /\ (step.op = "clearing" /\ ~is_trading_active) => trades_executed = <<>>

\* the monitoring iteration that halted the market (it broadcast the imbalance
\* signal) while the book holds a pair that a round would trade
C6_Witness ==
  /\ step.op = "health"
  /\ RLess(supply_demand_ratio, EmergencyStopThreshold)
  /\ ~is_trading_active
  /\ \E i \in 1..Len(sent) : sent[i].payload.signal_type = "supply_demand_imbalance"
  /\ WouldTrade

----------------------------------------------------------------------------
(* C7 *)

\* the latest step broadcast the high_volatility signal to every agent
HighVolatilitySignalled(msgs) ==
  \A a \in 1..Len(AgentsToNotify) :
    \E i \in 1..Len(msgs) :
      /\ msgs[i].recipient_id = AgentsToNotify[a]
      /\ msgs[i].message_type = "emergency_signal"
      /\ msgs[i].payload.signal_type = "high_volatility"

----------------------------------------------------------------------------
(* C8 *)

\* C8: submission validation: no order with quantity <= 0, limit price <= 0 or
\* expiry <= creation time is ever in order_book, bids or offers.
\* Refuted: the handlers put every order on the book without any check.
C8_InvalidNeverOnBook ==
  \A h \in Objects :
    OnBook(h) =>
      /\ objs[h].quantity_mw > 0
      /\ objs[h].price_per_mwh > 0
      /\ objs[h].valid_until > objs[h].timestamp

----------------------------------------------------------------------------
(* C9 *)

\* C9: terminal orders are never matched: for every trade of a round, neither
\* order was filled or past its expiry when paired, and both were still
\* registered in order_book (not removed).
\* Refuted: an expiry message of one type that names an order of the other side
\* pops it from order_book and leaves it in its list (see C24), where the next
\* round matches it.
C9_TerminalNeverMatched ==
  [][ step'.op = "clearing" =>
        \A i \in 1..Len(trades_executed') :
          LET t == trades_executed'[i]
          IN  /\ now <= objs[t.bid_ref].valid_until
              /\ now <= objs[t.offer_ref].valid_until
              /\ objs[t.bid_ref].status # "filled"
              /\ objs[t.offer_ref].status # "filled"
              /\ BookHas(order_book, t.bid_id)
              /\ BookHas(order_book, t.offer_id) ]_vars

----------------------------------------------------------------------------
(* C10 *)

\* the order ids a removal message is tried with
C10_Ids == {1, 2, 3}

\* handling the same removal once more changes nothing
C10_Idempotent(side_list, id) ==
  LET once == ExpiredResult(order_book, side_list, id)
      twice == ExpiredResult(once.book, once.side, id)
  IN  twice.book = once.book /\ twice.side = once.side

\* C10: idempotent cancel: a removal message for an id that is no key of
\* order_book changes neither order_book nor a list nor an order nor a metric,
\* and handling a removal a second time gives the state the first gave.
C10_IdempotentCancel ==
  [][ /\ \A id \in C10_Ids : C10_Idempotent(offers, id) /\ C10_Idempotent(bids, id)
      /\ (step'.op \in Removals /\ ~BookHas(order_book, step'.id))
           => UNCHANGED <<order_book, bids, offers, objs, metrics, is_trading_active>> ]_vars

\* a removal message named an id that was not (or no longer) in order_book
\* while orders are on the book
C10_Witness ==
  /\ step.op \in Removals
  /\ ~step.removed
  /\ order_book # <<>>
  /\ bids # <<>>

----------------------------------------------------------------------------
(* C11 *)

\* the quantity an order has left
Remaining(o) == o.quantity_mw - o.filled_quantity

\* the (bid, offer) pairs of the two lists that a round at instant t would
\* pair if their prices allow: both valid, with at least the minimum trade
\* size left on each
OpenPairs(os, bs, ofs, t) ==
  { pr \in (1..Len(os)) \X (1..Len(os)) :
      /\ InList(bs, pr[1]) /\ InList(ofs, pr[2])
      /\ IsValid(os[pr[1]], t) /\ IsValid(os[pr[2]], t)
      /\ Min(Remaining(os[pr[1]]), Remaining(os[pr[2]])) >= MinTradeSize }

\* C11: compatibility: every trade of a round pairs a bid with an offer whose
\* limit price is not above the bid's; a round over a book where every bid is
\* priced below every offer produces no trade and changes no order; and equal
\* prices are compatible: a round that ran to its end leaves no pair of valid
\* orders with equal prices and a tradable quantity.
C11_Compatibility ==
  [][ (step'.op = "clearing" /\ is_trading_active) =>
        /\ \A i \in 1..Len(trades_executed') :
             objs[trades_executed'[i].bid_ref].price_per_mwh
               >= objs[trades_executed'[i].offer_ref].price_per_mwh
        /\ (\A b \in 1..Len(bids), o \in 1..Len(offers) :
              objs[bids[b]].price_per_mwh < objs[offers[o]].price_per_mwh)
             => (trades_executed' = <<>> /\ UNCHANGED <<objs, bids, offers>>)
        /\ ~step'.failed =>
             \A pr \in OpenPairs(objs', bids', offers', now) :
               objs'[pr[1]].price_per_mwh # objs'[pr[2]].price_per_mwh ]_vars

\* a round traded a bid and an offer of equal prices and left an active offer
\* priced above that bid on the book
C11_Witness ==
  /\ step.op = "clearing"
  /\ \E i \in 1..Len(trades_executed) :
       LET t == trades_executed[i]
       IN  /\ objs[t.bid_ref].order_type = "bid"
           /\ objs[t.bid_ref].price_per_mwh = objs[t.offer_ref].price_per_mwh
           /\ \E o \in 1..Len(offers) :
                /\ objs[offers[o]].status = "active"
                /\ objs[offers[o]].price_per_mwh > objs[t.bid_ref].price_per_mwh

----------------------------------------------------------------------------
(* C12 *)

\* C12: trade pricing: every trade of a round is priced at the midpoint of the
\* two limit prices under uniform_pricing and at the bid's limit price under
\* pay_as_bid, and its fee is quantity (in MW) x price x 0.001; a round over one
\* valid bid and one valid offer of the same tradable quantity at compatible
\* prices yields exactly one trade of that quantity and both orders end filled
\* (and are taken off their lists).
C12_TradePricing ==
  [][ step'.op = "clearing" =>
        /\ \A i \in 1..Len(trades_executed') :
             LET t == trades_executed'[i]
                 bid_price == objs[t.bid_ref].price_per_mwh
                 offer_price == objs[t.offer_ref].price_per_mwh
             IN  /\ price_discovery_method = "uniform_pricing"
                      => RMul(RInt(2), t.price_per_mwh) = RInt(bid_price + offer_price)
                 /\ price_discovery_method = "pay_as_bid"
                      => t.price_per_mwh = RInt(bid_price)
                 /\ RMul(t.market_fee, RInt(1000 * QtyScale))
                      = RMul(RInt(t.quantity_mw), t.price_per_mwh)
        /\ ( /\ is_trading_active
             /\ Len(bids) = 1 /\ Len(offers) = 1
             /\ IsValid(objs[bids[1]], now) /\ IsValid(objs[offers[1]], now)
             /\ Remaining(objs[bids[1]]) = Remaining(objs[offers[1]])
             /\ Remaining(objs[bids[1]]) >= MinTradeSize
             /\ objs[bids[1]].price_per_mwh >= objs[offers[1]].price_per_mwh )
           => /\ Len(trades_executed') = 1
              /\ trades_executed'[1].quantity_mw = Remaining(objs[bids[1]])
              /\ trades_executed'[1].bid_ref = bids[1]
              /\ trades_executed'[1].offer_ref = offers[1]
              /\ bids' = <<>> /\ offers' = <<>>
              /\ objs'[bids[1]] # NoOrder => objs'[bids[1]].status = "filled"
              /\ objs'[offers[1]] # NoOrder => objs'[offers[1]].status = "filled" ]_vars

\* the scenario: under uniform_pricing a bid at 50 and an offer at 40 of the
\* same quantity (1.0 MW) gave one trade at 45 with fee 0.045 and both orders
\* are filled
C12_Witness ==
  /\ step.op = "clearing"
  /\ price_discovery_method = "uniform_pricing"
  /\ Len(trades_executed) = 1
  /\ LET t == trades_executed[1]
     IN  /\ t.quantity_mw = QtyScale
         /\ objs[t.bid_ref].price_per_mwh = 50
         /\ objs[t.offer_ref].price_per_mwh = 40
         /\ t.price_per_mwh = <<45, 1>>
         /\ t.market_fee = <<9, 200>>
         /\ objs[t.bid_ref].status = "filled"
         /\ objs[t.offer_ref].status = "filled"

----------------------------------------------------------------------------
(* C13 *)

\* C13: the clearing price is the round's volume-weighted average: after a
\* clearing round with at least one trade market_clearing_price times the
\* round's volume equals the sum of quantity x price over exactly that round's
\* trades, and no other step changes market_clearing_price (so it is the seed
\* value or the average of the latest round that traded).
\* Refuted: a round that an exception ended after a trade leaves the price as it
\* was (see C21); the equation holds after every round that ran to its end.
C13_ClearingPriceIsVwap ==
  [][ /\ (step'.op = "clearing" /\ trades_executed' # <<>>)
           => RMul(market_clearing_price', RInt(TradesVolume(trades_executed')))
                = TradesWeightedPrice(trades_executed')
      /\ (step'.op # "clearing" \/ trades_executed' = <<>>)
           => UNCHANGED market_clearing_price ]_vars

\* a round of two trades that differ in quantity and in price, with the price
\* their weighted average
C13_Witness ==
  /\ step.op = "clearing"
  /\ Len(trades_executed) = 2
  /\ trades_executed[1].quantity_mw # trades_executed[2].quantity_mw
  /\ trades_executed[1].price_per_mwh # trades_executed[2].price_per_mwh
  /\ RMul(market_clearing_price, RInt(TradesVolume(trades_executed)))
       = TradesWeightedPrice(trades_executed)

----------------------------------------------------------------------------
(* C14 *)

\* C14: a clearing round that executes no trade leaves market_clearing_price,
\* market_volatility, total_volume_traded, total_trades_executed and every
\* order (and the containers that hold the orders) unchanged.
C14_EmptyRoundChangesNothing ==
  [][ (step'.op = "clearing" /\ trades_executed' = <<>>)
        => UNCHANGED <<market_clearing_price, market_volatility, total_volume_traded,
                       total_trades_executed, objs, bids, offers, order_book>> ]_vars

\* a round of an active market over a book with orders on both sides executed
\* no trade, after an earlier round had moved the clearing price off its seed
C14_Witness ==
  /\ step.op = "clearing"
  /\ is_trading_active
  /\ trades_executed = <<>>
  /\ bids # <<>> /\ offers # <<>>
  /\ market_clearing_price # RInt(SeedPrice)
  /\ market_volatility # RInt(0)

----------------------------------------------------------------------------
(* C15 *)

\* s is t with some elements left out, in the same order
RECURSIVE IsSubList(_, _)
IsSubList(s, t) ==
  IF s = <<>> THEN TRUE
  ELSE IF t = <<>> THEN FALSE
  ELSE IF Head(s) = Head(t) THEN IsSubList(Tail(s), Tail(t))
  ELSE IsSubList(s, Tail(t))

\* C15: snapshot isolation of a round.  No coroutine a round awaits suspends, so
\* no handler runs inside a round: a round is one step.  The round matches only
\* orders that were on the lists when it started and adds none to them; its
\* iteration passes over no order: run to its end, it leaves no pair of valid
\* orders with compatible prices and a tradable quantity; and a submission is a step of its
\* own that matches nothing: the new order is on the book, untouched, for the
\* next round.
C15_SnapshotIsolation ==
  [][ /\ (step'.op = "clearing" /\ is_trading_active) =>
           /\ \A i \in 1..Len(trades_executed') :
                /\ InList(bids, trades_executed'[i].bid_ref)
                /\ InList(offers, trades_executed'[i].offer_ref)
           /\ IsSubList(bids', bids) /\ IsSubList(offers', offers)
           /\ ~step'.failed =>
                \A pr \in OpenPairs(objs', bids', offers', now) :
                  objs'[pr[1]].price_per_mwh < objs'[pr[2]].price_per_mwh
      /\ step'.op \in {"energy_bid", "energy_offer"} =>
           /\ trades_executed' = <<>>
           /\ UNCHANGED <<total_trades_executed, total_volume_traded>>
           /\ ~step'.no_valid_until =>
                /\ objs'[Len(objs')].status = "active"
                /\ objs'[Len(objs')].filled_quantity = 0
                /\ InList(bids' \o offers', Len(objs')) ]_vars

\* a round matched an order that was created after an order which an earlier
\* round had filled
C15_Witness ==
  /\ step.op = "clearing"
  /\ total_trades_executed > Len(trades_executed)
  /\ \E i \in 1..Len(trades_executed), h \in Objects :
       /\ objs[h].status = "filled"
       /\ FilledByTrades(trades_executed, h) = 0
       /\ h < trades_executed[i].bid_ref
       /\ h < trades_executed[i].offer_ref

----------------------------------------------------------------------------
(* C16 *)

\* the latest step sent the expiry message of order o to its owner
ExpiryNotified(msgs, o) == \E i \in 1..Len(msgs) : msgs[i] = ExpiryMessage(o)

\* C16: a maintenance sweep removes an order stored in order_book from the book
\* and sends its expiry message to its owner if and only if the order is past
\* its valid_until and still active or partially filled.
\* Refuted: the sweep selects by is_valid, which is false for every order that
\* is not 'active': a filled order still in order_book and an unexpired
\* partially filled order are removed and reported as expired.
C16_SweepExpiresExactlyStale ==
  [][ step'.op = "maintenance" =>
        \A h \in Objects :
          (\E i \in 1..Len(order_book) : order_book[i].obj = h) =>
            ( (~OnBook(h)' /\ ExpiryNotified(sent', objs[h]))
              <=> ( /\ now > objs[h].valid_until
                    /\ objs[h].status \in {"active", "partially_filled"} ) ) ]_vars

----------------------------------------------------------------------------
(* C17 *)

\* the (bid, offer) pairs of the two lists that are live at instant t (not past
\* valid_until, active or partially filled) with compatible prices and at least
\* the minimum trade size left on each
LivePairs(os, bs, ofs, t) ==
  { pr \in (1..Len(os)) \X (1..Len(os)) :
      /\ InList(bs, pr[1]) /\ InList(ofs, pr[2])
      /\ t <= os[pr[1]].valid_until /\ t <= os[pr[2]].valid_until
      /\ os[pr[1]].status \in {"active", "partially_filled"}
      /\ os[pr[2]].status \in {"active", "partially_filled"}
      /\ os[pr[1]].price_per_mwh >= os[pr[2]].price_per_mwh
      /\ Min(Remaining(os[pr[1]]), Remaining(os[pr[2]])) >= MinTradeSize }

\* C17: partially filled orders stay live: a round of an active market matches
\* every live pair, so that it leaves no pair of unexpired, not yet filled orders
\* with compatible prices and a tradable quantity on the lists.
\* Refuted: is_valid requires status 'active', so an offer partially filled by
\* one bid is skipped by the next bid of the same round, and a partially filled
\* order is skipped by every later round.
C17_PartiallyFilledStayLive ==
  [][ (step'.op = "clearing" /\ is_trading_active)
        => LivePairs(objs', bids', offers', now) = {} ]_vars

----------------------------------------------------------------------------
(* C18 *)

\* order a is considered strictly before order b on its side: higher priority;
\* at equal priority the better price (higher for bids, lower for offers); at
\* equal priority and price the earlier creation time
C18_Precedes(a, b, side) ==
  \/ a.priority > b.priority
  \/ /\ a.priority = b.priority
     /\ IF side = "bid" THEN a.price_per_mwh > b.price_per_mwh
        ELSE a.price_per_mwh < b.price_per_mwh
  \/ /\ a.priority = b.priority
     /\ a.price_per_mwh = b.price_per_mwh
     /\ a.timestamp < b.timestamp

\* list s is the list l rearranged so that no order stands behind an order it
\* precedes
C18_Ordered(s, l, side) ==
  /\ Len(s) = Len(l)
  /\ \A i \in 1..Len(l) : InList(s, l[i])
  /\ \A i \in 1..Len(s), j \in 1..Len(s) :
       i < j => ~C18_Precedes(objs[s[j]], objs[s[i]], side)

----------------------------------------------------------------------------
(* C19 *)

\* C19: minimum trade size: every trade of a round has a quantity of at least
\* min_trade_size_mw; an order that no trade of the round names is unchanged (a
\* pair below the minimum is skipped without consuming either order); and the
\* bid goes on to the next offer: a round of an active market that ran to its
\* end leaves no pair of valid orders with compatible prices and at least the
\* minimum left on both.
C19_MinimumTradeSize ==
  [][ step'.op = "clearing" =>
        /\ \A i \in 1..Len(trades_executed') :
             trades_executed'[i].quantity_mw >= MinTradeSize
        /\ \A h \in Objects :
             FilledByTrades(trades_executed', h) = 0 => objs'[h] = objs[h]
        /\ (is_trading_active /\ ~step'.failed) =>
             \A pr \in OpenPairs(objs', bids', offers', now) :
               ~(objs'[pr[1]].price_per_mwh >= objs'[pr[2]].price_per_mwh) ]_vars

\* a round traded a bid with an offer after it had skipped an offer that stands
\* before that one on the list, is priced within the bid's limit and has less
\* than the minimum left; the skipped offer is untouched
C19_Witness ==
  /\ step.op = "clearing"
  /\ \E i \in 1..Len(trades_executed), k \in 1..Len(offers) :
       LET t == trades_executed[i]
           small == offers[k]
       IN  /\ objs[t.bid_ref].order_type = "bid"
           /\ objs[t.offer_ref].order_type = "offer"
           /\ small # t.offer_ref
           /\ small < t.offer_ref
           /\ ~C18_Precedes(objs[t.offer_ref], objs[small], "offer")
           /\ objs[small].status = "active"
           /\ objs[small].filled_quantity = 0
           /\ objs[small].quantity_mw > 0
           /\ objs[small].quantity_mw < MinTradeSize
           /\ objs[small].price_per_mwh <= objs[t.bid_ref].price_per_mwh

----------------------------------------------------------------------------
(* C20 *)

\* C20: scheduler tick sequence: a clearing iteration of an active market runs
\* the round, then the metrics update, then the health step, to completion, so
\* that after the iteration the health figures are those of the book the round
\* left and the emergency check has acted on the round's volatility.
\* Refuted: the iteration calls _update_market_metrics, which the class does not
\* define; the AttributeError ends the iteration after the round, and the
\* health figures are only computed by the separate monitoring loop.
C20_TickRunsHealth ==
  [][ (step'.op = "clearing" /\ is_trading_active) =>
        /\ supply_demand_ratio' = SupplyDemandRatio(bids', offers', objs', now)
        /\ price_spread' = PriceSpread(bids', offers', objs', now, price_spread)
        /\ RLess(VolatilityLimit, market_volatility') => HighVolatilitySignalled(sent') ]_vars

----------------------------------------------------------------------------
(* C21 *)

\* every trade the round emitted or counted has its fills: the counters grew by
\* the round's trades, three messages went out per trade, and every order's
\* filled_quantity grew by the quantity of the trades that name it
C21_NoHalfPairing ==
  /\ total_trades_executed' = total_trades_executed + Len(trades_executed')
  /\ total_volume_traded' = total_volume_traded + TradesVolume(trades_executed')
  /\ Len(sent') = 3 * Len(trades_executed')
  /\ \A h \in Objects :
       IF objs'[h] # NoOrder
       THEN objs'[h].filled_quantity
              = objs[h].filled_quantity + FilledByTrades(trades_executed', h)
       ELSE objs[h].quantity_mw - objs[h].filled_quantity
              = FilledByTrades(trades_executed', h)

\* the trades of the round are in the clearing price
C21_TradesPriced ==
  trades_executed' # <<>> =>
    RMul(market_clearing_price', RInt(TradesVolume(trades_executed')))
      = TradesWeightedPrice(trades_executed')

\* C21: pairing atomicity under faults: after a clearing round, also one that
\* an exception ended part-way, no trade is counted or notified without both
\* of its orders filled by its quantity, and the trades the round completed
\* are in the clearing price.
\* Refuted: the exception leaves the loops for the handler of line 277, past
\* the call of _update_market_clearing_price; the completed trades never reach
\* the price.  The first half holds: the only raising line of a round is the
\* subtraction of lines 243-246, between two pairings.
C21_PairingAtomicity ==
  [][ step'.op = "clearing" => (C21_NoHalfPairing /\ C21_TradesPriced) ]_vars

\* the first half of C21 alone
C21_CompletedPairingsOnly ==
  [][ step'.op = "clearing" => C21_NoHalfPairing ]_vars

----------------------------------------------------------------------------
(* C22 *)

\* C22: best-effort storing: in a clearing round during which the time-series
\* store refuses every write, each trade is still counted, notified and filled
\* on both orders, and a round that the store is the only trouble of goes on:
\* its trades are in the clearing price and it leaves no pair of valid orders
\* with compatible prices and a tradable quantity.
C22_BestEffortNotification ==
  [][ (step'.op = "clearing" /\ ~store_available) =>
        /\ C21_NoHalfPairing
        /\ ~step'.failed =>
             /\ C21_TradesPriced
             /\ is_trading_active =>
                  \A pr \in OpenPairs(objs', bids', offers', now) :
                    objs'[pr[1]].price_per_mwh < objs'[pr[2]].price_per_mwh ]_vars

\* a round of two trades ran to its end while the store refused the writes;
\* both trades are in the clearing price
C22_Witness ==
  /\ step.op = "clearing" /\ ~step.failed
  /\ ~store_available
  /\ Len(trades_executed) = 2
  /\ Len(sent) = 6
  /\ trades_executed[1].price_per_mwh # trades_executed[2].price_per_mwh
  /\ RMul(market_clearing_price, RInt(TradesVolume(trades_executed)))
       = TradesWeightedPrice(trades_executed)
  /\ \A i \in 1..2 : objs[trades_executed[i].offer_ref] = NoOrder
                       \/ objs[trades_executed[i].offer_ref].status = "filled"

----------------------------------------------------------------------------
(* C23 *)

\* C23: a single bad order cannot abort a round: a clearing round of an active
\* market over a book that holds an order whose quantity is no number still
\* matches every other pair (it leaves no pair of valid orders with compatible
\* prices and a tradable quantity) and still updates the clearing price from
\* the trades it executed.
\* Refuted: the TypeError of lines 243-246 ends the whole round.
C23_BadOrderCannotAbort ==
  [][ (step'.op = "clearing" /\ is_trading_active
       /\ \E h \in Objects : ~IsNumber(objs[h].quantity_mw)) =>
        /\ \A pr \in OpenPairs(objs', bids', offers', now) :
             objs'[pr[1]].price_per_mwh < objs'[pr[2]].price_per_mwh
        /\ C21_TradesPriced ]_vars

----------------------------------------------------------------------------
(* C24 *)

\* object h is in neither list and key id is not in the index, after the step
C24_Gone(id, h) ==
  /\ ~BookHas(order_book', id)
  /\ ~InList(bids', h)
  /\ ~InList(offers', h)

\* C24: removal is complete: after an offer_expired or bid_expired message that
\* names an id of order_book, and after a sweep for every item it selected, the
\* id is no key of order_book and the order object is in neither bids nor
\* offers.
\* Refuted: each handler removes the object from the list of its own message
\* type only.
C24_RemovalIsComplete ==
  [][ /\ (step'.op \in Removals /\ BookHas(order_book, step'.id))
           => C24_Gone(step'.id, BookGet(order_book, step'.id))
      /\ step'.op = "maintenance"
           => \A i \in 1..Len(ExpiredItems(order_book, objs, now)) :
                C24_Gone(ExpiredItems(order_book, objs, now)[i].key,
                         ExpiredItems(order_book, objs, now)[i].obj) ]_vars

\* the sweep's half of C24 alone
C24_SweepRemovalIsComplete ==
  [][ step'.op = "maintenance"
           => \A i \in 1..Len(ExpiredItems(order_book, objs, now)) :
                C24_Gone(ExpiredItems(order_book, objs, now)[i].key,
                         ExpiredItems(order_book, objs, now)[i].obj) ]_vars

----------------------------------------------------------------------------
(* C25 *)

\* the status of an order object agrees with its fill
C25_FillStatus(o) ==
  /\ o.filled_quantity = o.quantity_mw => o.status = "filled"
  /\ (0 < o.filled_quantity /\ o.filled_quantity < o.quantity_mw)
       => o.status = "partially_filled"

\* C25: status is a function of fill and expiry: every order object with
\* filled_quantity = quantity_mw has status filled, every one with
\* 0 < filled_quantity < quantity_mw has status partially_filled, and every
\* order that a sweep popped past its valid_until with nothing filled has
\* status expired when the sweep is done with it.
\* Refuted: no line of the program assigns the status expired.
C25_StatusFunction ==
  /\ \A h \in Objects : C25_FillStatus(objs[h])
  /\ \A i \in 1..Len(step.swept) :
       (now > step.swept[i].valid_until /\ step.swept[i].filled_quantity = 0)
         => step.swept[i].status = "expired"

\* the fill half of C25 alone
C25_StatusFollowsFill == \A h \in Objects : C25_FillStatus(objs[h])

----------------------------------------------------------------------------
(* C26 *)

\* the number of emergency_signal messages of the given type among msgs that
\* went to the given agent
SignalCount(msgs, signal_type, agent) ==
  Cardinality({ i \in 1..Len(msgs) :
                  /\ msgs[i].message_type = "emergency_signal"
                  /\ msgs[i].payload.signal_type = signal_type
                  /\ msgs[i].recipient_id = agent })

\* msgs hold the given signal exactly once for every agent of AgentsToNotify
SignalledOnce(msgs, signal_type) ==
  \A a \in 1..Len(AgentsToNotify) : SignalCount(msgs, signal_type, AgentsToNotify[a]) = 1

\* msgs hold no emergency_signal of the given type
NotSignalled(msgs, signal_type) ==
  \A i \in 1..Len(msgs) :
    msgs[i].message_type = "emergency_signal" => msgs[i].payload.signal_type # signal_type

----------------------------------------------------------------------------
(* C27 *)

\* an order that can still trade: active or partially filled, and not past its
\* valid_until
C27_Live(o, t) == t <= o.valid_until /\ o.status \in {"active", "partially_filled"}

\* the remaining quantity of the live orders of a list
RECURSIVE C27_LiveRemaining(_, _, _)
C27_LiveRemaining(s, os, t) ==
  IF s = <<>> THEN 0
  ELSE (IF C27_Live(os[Head(s)], t) THEN Remaining(os[Head(s)]) ELSE 0)
       + C27_LiveRemaining(Tail(s), os, t)

\* C27: supply-demand ratio: after a monitoring iteration over lists whose
\* orders all have a positive quantity, supply_demand_ratio is the remaining
\* quantity of the live offers divided by the remaining quantity of the live
\* bids, and 1 when that demand is 0.
\* Refuted: the sums run over the orders that is_valid accepts, which leaves
\* out every partially filled order (see C17).
C27_SupplyDemandRatio ==
  [][ (step'.op = "health"
       /\ \A i \in 1..Len(bids \o offers) : objs[(bids \o offers)[i]].quantity_mw > 0) =>
        supply_demand_ratio' =
          IF C27_LiveRemaining(bids, objs, now) = 0 THEN RInt(1)
          ELSE Rat(C27_LiveRemaining(offers, objs, now),
                   C27_LiveRemaining(bids, objs, now)) ]_vars

----------------------------------------------------------------------------
(* C28 *)

\* C28: spread: after a monitoring iteration over lists whose orders all have a
\* number as quantity, price_spread is the lowest price of the valid offers
\* minus the highest price of the valid bids, and 0 when either list holds no
\* valid order (empty, or with expired or non-active orders only); and the
\* metrics computed after the spread are those of this iteration:
\* average_trade_size is total_volume_traded / total_trades_executed, or 0
\* without trades.
\* Refuted: with both lists non-empty and no valid order in one of them, max()
\* or min() raises ValueError; price_spread keeps the value of an earlier
\* iteration and the later metrics are not computed.
C28_Spread ==
  [][ (step'.op = "health" /\ ~QuantitySumRaises(bids, offers, objs, now)) =>
        /\ price_spread' =
             IF ValidPrices(bids, objs, now) = {} \/ ValidPrices(offers, objs, now) = {}
             THEN 0
             ELSE SetMin(ValidPrices(offers, objs, now)) - SetMax(ValidPrices(bids, objs, now))
        /\ average_trade_size' = AverageTradeSize(total_volume_traded, total_trades_executed) ]_vars

----------------------------------------------------------------------------
(* C29 *)

\* the messages of the given type and recipient among msgs that carry trade
TradeMessages(msgs, message_type, recipient_id, trade) ==
  { j \in 1..Len(msgs) : msgs[j] = Message(recipient_id, message_type, trade) }

\* C29: three notifications per trade: the messages a clearing round sends are,
\* for every trade of the round, exactly one trade_executed to the buyer, one
\* trade_executed to the seller and one trade_announcement to "broadcast", each
\* carrying that trade, and nothing else; no other step sends such a message.
C29_ThreeNotifications ==
  [][ /\ step'.op = "clearing" =>
           /\ Len(sent') = 3 * Len(trades_executed')
           /\ \A i \in 1..Len(trades_executed') :
                LET trade == trades_executed'[i]
                IN  /\ trade.buyer_id = objs[trade.bid_ref].agent_id
                    /\ trade.seller_id = objs[trade.offer_ref].agent_id
                    /\ Cardinality(TradeMessages(sent', "trade_executed",
                                                 trade.buyer_id, trade)) = 1
                    /\ Cardinality(TradeMessages(sent', "trade_executed",
                                                 trade.seller_id, trade)) = 1
                    /\ Cardinality(TradeMessages(sent', "trade_announcement",
                                                 "broadcast", trade)) = 1
      /\ step'.op # "clearing" =>
           \A j \in 1..Len(sent') :
             sent'[j].message_type \notin {"trade_executed", "trade_announcement"} ]_vars

\* a round of two trades sent six messages, three for each trade
C29_Witness ==
  /\ step.op = "clearing"
  /\ Len(trades_executed) = 2
  /\ Len(sent) = 6
  /\ \A i \in 1..2 :
       /\ Cardinality(TradeMessages(sent, "trade_executed", "consumer_agent",
                                    trades_executed[i])) = 1
       /\ Cardinality(TradeMessages(sent, "trade_executed", "producer_agent",
                                    trades_executed[i])) = 1
       /\ Cardinality(TradeMessages(sent, "trade_announcement", "broadcast",
                                    trades_executed[i])) = 1

----------------------------------------------------------------------------
(* C30 *)

\* a rational that is defined (its denominator is not 0) and not negative
NonNegative(x) == x[2] > 0 /\ x[1] >= 0

\* C30: the clearing price and the volatility stay well-formed: in every state
\* market_clearing_price is a number that is not negative and
\* market_volatility is a number that is not negative.
\* Refuted: orders with a negative limit price are accepted (see C8) and trade
\* at a negative price, which becomes the clearing price.
C30_WellFormedPriceAndVolatility ==
  /\ NonNegative(market_clearing_price)
  /\ NonNegative(market_volatility)

\* the volatility half of C30 alone
C30_VolatilityNonNegative == NonNegative(market_volatility)

----------------------------------------------------------------------------
(* C32 *)

\* C32: default expiry: after the handler of an energy_bid or energy_offer
\* message whose payload names no valid_until, the order is registered in
\* order_book under its id with valid_until = timestamp + 30 minutes.
\* Refuted: the handler reads offer_data['valid_until'] (KeyError) before the
\* order is constructed; the default of MarketOrder.__init__ is never used.
C32_DefaultExpiry ==
  [][ (step'.op \in {"energy_bid", "energy_offer"} /\ step'.no_valid_until) =>
        /\ BookHas(order_book', step'.id)
        /\ objs'[BookGet(order_book', step'.id)].timestamp = now
        /\ objs'[BookGet(order_book', step'.id)].valid_until = now + DefaultLifetime ]_vars

----------------------------------------------------------------------------
(* C33 *)

\* C33: maximum trade size: no trade of a clearing round has a quantity above
\* max_trade_size_mw.
\* Refuted: max_trade_size_mw is a field of the configuration that no line of
\* the program reads.
C33_MaximumTradeSize ==
  [][ step'.op = "clearing" =>
        \A i \in 1..Len(trades_executed') :
          trades_executed'[i].quantity_mw <= MaxTradeSize ]_vars

----------------------------------------------------------------------------
(* C34 *)

\* C34: index/side consistency: in every state, every order object in bids or
\* offers is the object registered in order_book under its order_id, it sits in
\* the list of its order_type, and no order_id occurs twice across bids and
\* offers.
\* Refuted: a second submission under an order id already on the book replaces
\* the index entry and leaves the first object in its list; an expiry message
\* of one type that names an order of the other type pops the index entry and
\* leaves the object in its list.
C34_IndexSideConsistency ==
  /\ \A i \in 1..Len(bids) :
       /\ objs[bids[i]].order_type = "bid"
       /\ BookHas(order_book, objs[bids[i]].order_id)
       /\ BookGet(order_book, objs[bids[i]].order_id) = bids[i]
  /\ \A i \in 1..Len(offers) :
       /\ objs[offers[i]].order_type = "offer"
       /\ BookHas(order_book, objs[offers[i]].order_id)
       /\ BookGet(order_book, objs[offers[i]].order_id) = offers[i]
  /\ \A i, j \in 1..Len(bids \o offers) :
       i # j => objs[(bids \o offers)[i]].order_id # objs[(bids \o offers)[j]].order_id

----------------------------------------------------------------------------
(* C35 *)

\* an order object that is filled, or that a round filled and nothing refers to
\* any more
C35_Filled(os, h) == os[h] = NoOrder \/ os[h].status = "filled"

\* C35: every trade exhausts one side: the quantity of each trade of a round is
\* what was left of its offer or what was left of its bid at that pairing, so
\* one of the two is filled afterwards; no two trades of a round have the same
\* bid and offer, the offer of a trade has never traded before the round, and a
\* filled order of a trade is in neither list after the round.
C35_TradeExhaustsOneSide ==
  [][ step'.op = "clearing" =>
        \A i \in 1..Len(trades_executed') :
          LET t == trades_executed'[i]
              b == t.bid_ref
              o == t.offer_ref
          IN  /\ \/ t.quantity_mw = objs[o].quantity_mw - objs[o].filled_quantity
                 \/ FilledByTrades(SubSeq(trades_executed', 1, i), b)
                      = objs[b].quantity_mw - objs[b].filled_quantity
              /\ C35_Filled(objs', b) \/ C35_Filled(objs', o)
              /\ objs[o].filled_quantity = 0
              /\ objs[b].filled_quantity = 0
              /\ \A j \in 1..Len(trades_executed') :
                   j # i => ~(trades_executed'[j].bid_ref = b /\
                              trades_executed'[j].offer_ref = o)
              /\ C35_Filled(objs', b) => ~InList(bids', b)
              /\ C35_Filled(objs', o) => ~InList(offers', o) ]_vars

\* a round in which one bid traded with two offers: the first trade filled its
\* offer and left the bid partially filled, the second went on with the rest
C35_Witness ==
  /\ step.op = "clearing"
  /\ Len(trades_executed) >= 2
  /\ trades_executed[1].bid_ref = trades_executed[2].bid_ref
  /\ trades_executed[1].offer_ref # trades_executed[2].offer_ref
  /\ trades_executed[1].quantity_mw < objs[trades_executed[1].bid_ref].quantity_mw

----------------------------------------------------------------------------
(* C36 *)

\* the filled_quantity a step added to the objects 1..n of one order_type, from
\* the objects before (os) and after (os2) the step; an object the step filled
\* and nothing refers to any more received what was left of it
RECURSIVE C36_FilledAdded(_, _, _, _)
C36_FilledAdded(os, os2, order_type, n) ==
  IF n = 0 THEN 0
  ELSE C36_FilledAdded(os, os2, order_type, n - 1) +
       (IF os[n] = NoOrder \/ os[n].order_type # order_type \/ ~IsNumber(os[n].quantity_mw)
        THEN 0
        ELSE IF os2[n] = NoOrder THEN os[n].quantity_mw - os[n].filled_quantity
        ELSE os2[n].filled_quantity - os[n].filled_quantity)

\* C36: counter consistency: both counters start at zero; a clearing round adds
\* the number of its trades to total_trades_executed and the sum of their
\* quantities to total_volume_traded, and that sum is the filled_quantity the
\* round added to bids and equally the one it added to offers; no other step
\* changes a counter or a filled_quantity.
C36_CounterConsistency ==
  /\ total_trades_executed = 0 /\ total_volume_traded = 0
  /\ [][ /\ step'.op = "clearing" =>
              /\ total_trades_executed' = total_trades_executed + Len(trades_executed')
              /\ total_volume_traded' = total_volume_traded + TradesVolume(trades_executed')
              /\ C36_FilledAdded(objs, objs', "bid", Len(objs))
                   = TradesVolume(trades_executed')
              /\ C36_FilledAdded(objs, objs', "offer", Len(objs))
                   = TradesVolume(trades_executed')
         /\ step'.op # "clearing" =>
              /\ UNCHANGED <<total_trades_executed, total_volume_traded>>
              /\ \A h \in Objects :
                   objs'[h] # NoOrder => objs'[h].filled_quantity = objs[h].filled_quantity
       ]_vars

\* a second round with a trade, after an earlier round with a trade
C36_Witness ==
  /\ step.op = "clearing"
  /\ Len(trades_executed) >= 1
  /\ total_trades_executed > Len(trades_executed)
  /\ total_volume_traded > TradesVolume(trades_executed)

----------------------------------------------------------------------------
(* C37 *)

\* C37: trade price within limits: under both pricing methods the price of
\* every trade of a round is at least the limit price of its offer and at most
\* the limit price of its bid.
C37_PriceWithinLimits ==
  [][ step'.op = "clearing" =>
        \A i \in 1..Len(trades_executed') :
          LET t == trades_executed'[i]
          IN  /\ price_discovery_method \in {"uniform_pricing", "pay_as_bid"}
              /\ RLeq(RInt(objs[t.offer_ref].price_per_mwh), t.price_per_mwh)
              /\ RLeq(t.price_per_mwh, RInt(objs[t.bid_ref].price_per_mwh)) ]_vars

\* a pay_as_bid trade above the offer's limit price: the bid at 50 pays 50 to
\* an offer at 40
C37_Witness ==
  /\ step.op = "clearing"
  /\ price_discovery_method = "pay_as_bid"
  /\ \E i \in 1..Len(trades_executed) :
       LET t == trades_executed[i]
       IN  /\ objs[t.bid_ref] # NoOrder /\ objs[t.offer_ref] # NoOrder
           /\ objs[t.bid_ref].price_per_mwh = 50
           /\ objs[t.offer_ref].price_per_mwh = 40
           /\ t.price_per_mwh = RInt(50)

----------------------------------------------------------------------------
(* Scheduling *)

\* The asyncio event loop resumes every task whose sleep or wait has ended:
\* a loop that can take its next iteration, or leave, eventually does.  Messages
\* and the clock are the environment's and have no fairness.  The scheduling is
\* checked on the behaviours of the "lifecycle" input.
LiveInit == Init /\ profile = "lifecycle"

\* The turn of the clearing loop: the task is at its test, finds is_running
\* true, and its iteration is the step recorded.  The steps of Next that satisfy
\* it are the steps of MarketClearingTick, whose guard it repeats; the fairness
\* of the loop is stated on it.
ClearingLoopTurn ==
  /\ LoopMayIterate(tasks["market_clearing"], is_running)
  /\ ProcessorHasRun
  /\ \E failed \in BOOLEAN : step' = [Step("clearing", 0) EXCEPT !.failed = failed]

LiveSpec ==
  /\ LiveInit
  /\ [][Next]_vars
  /\ WF_vars(ProcessorTest)
  /\ WF_vars(LoopExit)
  /\ WF_step(ClearingLoopTurn)
  /\ WF_vars(MarketHealthTick)
  /\ WF_vars(OrderBookMaintenanceTick)

----------------------------------------------------------------------------
(* C31 *)

\* C31: no error is fatal to the loops: an iteration of a periodic loop, raising
\* or not, leaves that loop and every other task where it was, ready for its
\* next iteration; and as long as the agent is running each of the three loops
\* iterates again and again.
C31_LoopsSurviveErrors ==
  /\ [][ step'.op \in {"clearing", "health", "maintenance"} => tasks' = tasks ]_vars
  /\ []<>(~is_running \/ tasks["market_clearing"] = "none" \/ step.op = "clearing")
  /\ []<>(~is_running \/ tasks["market_health"] = "none" \/ step.op = "health")
  /\ []<>(~is_running \/ tasks["order_book_maintenance"] = "none"
            \/ step.op = "maintenance")

\* a clearing iteration of an active market after an earlier one that traded:
\* every iteration of an active market ends in the handler of the loop (the
\* AttributeError of line 156), and all three loops are still ready
C31_Witness ==
  /\ step.op = "clearing"
  /\ is_running /\ is_trading_active
  /\ total_trades_executed > Len(trades_executed)
  /\ \A t \in Loops : tasks[t] = "ready"

----------------------------------------------------------------------------
(* C38 *)

\* stop() has been called: the tasks exist and is_running is false
C38_Stopped == ~is_running /\ \A t \in Tasks : tasks[t] # "none"

\* C38: stop terminates the loops: once stop() has set is_running to false no
\* clearing round, health check or sweep runs and no trade is made; a message is
\* dispatched only by the iteration of the message processor that was already
\* waiting for it, which handles it completely (a submitted order is in the
\* index and in its list) and then leaves; a task that has left stays out; and
\* every task eventually leaves its loop.
C38_StopTerminatesLoops ==
  /\ [][ C38_Stopped =>
           /\ step'.op \notin {"clearing", "health", "maintenance"}
           /\ trades_executed' = <<>>
           /\ UNCHANGED <<total_trades_executed, total_volume_traded, is_running>>
           /\ step'.op \in {"energy_bid", "energy_offer", "offer_expired", "bid_expired"} =>
                /\ tasks["message_processor"] = "waiting"
                /\ tasks'["message_processor"] = "exited"
           /\ (step'.op \in {"energy_bid", "energy_offer"} /\ ~step'.no_valid_until) =>
                /\ BookHas(order_book', step'.id)
                /\ InList(bids' \o offers', BookGet(order_book', step'.id))
           /\ \A t \in Tasks : tasks[t] = "exited" => tasks'[t] = "exited" ]_vars
  /\ (step.op = "stop") ~> (\A t \in Tasks : tasks[t] = "exited")

\* after a trading round the agent was stopped and every task has left its
\* loop; both orders are still in the index
C38_Witness ==
  /\ C38_Stopped
  /\ \A t \in Tasks : tasks[t] = "exited"
  /\ total_trades_executed > 0
  /\ Len(order_book) = OrdersOf(profile)

====
